---- MODULE Spec2Model ----
(***************************************************************************)
(* Rate-and-state friction model (rsf.py): the state relations, the        *)
(* external system, the integration step (the ODE right-hand side) and     *)
(* solve's construction of the initial vector and of the results.          *)
(*                                                                         *)
(* Numbers.  Every number is an exact rational <<n, d>> in lowest terms    *)
(* with d > 0; None is <<0, 0>>, which is no rational.  math.log and       *)
(* math.exp are exact on the domain the model draws its inputs from:       *)
(* velocities, state values and slip distances are powers of two, and      *)
(* friction values (mu, mu0) are measured in units of ln 2, so that        *)
(*     log(x)            = Log2(x)          (in units of ln 2)             *)
(*     exp(y / a)        = 2 ^ (y / a)      (y in units of ln 2)           *)
(* The inputs are restricted to those for which y / a is an integer.       *)
(***************************************************************************)
EXTENDS Integers, Sequences, FiniteSets, TLC

VARIABLES system, last, pinned, results, returned

vars == <<system, last, pinned, results, returned>>

----------------------------------------------------------------------------
(* Exact rational arithmetic *)

None == <<0, 0>>

IsNone(x) == x = None

AnyNone(S) == \E x \in S : IsNone(x)

Abs(i) == IF i < 0 THEN -i ELSE i

RECURSIVE GCD(_, _)
GCD(x, y) == IF y = 0 THEN x ELSE GCD(y, x % y)

Reduce(n, d, g) ==
    IF d < 0 THEN <<(-n) \div g, (-d) \div g>> ELSE <<n \div g, d \div g>>

Rat(n, d) == Reduce(n, d, GCD(Abs(n), Abs(d)))

RInt(i) == <<i, 1>>

RAdd(x, y) == Rat(x[1] * y[2] + y[1] * x[2], x[2] * y[2])

RSub(x, y) == Rat(x[1] * y[2] - y[1] * x[2], x[2] * y[2])

RMul(x, y) == Rat(x[1] * y[1], x[2] * y[2])

RDiv(x, y) == Rat(x[1] * y[2], x[2] * y[1])

IsInteger(x) == x[2] = 1

RECURSIVE IntPow2(_)
IntPow2(n) == IF n = 0 THEN 1 ELSE 2 * IntPow2(n - 1)

\* 2^e for an integer e of either sign
Pow2(e) == IF e >= 0 THEN <<IntPow2(e), 1>> ELSE <<1, IntPow2(-e)>>

RECURSIVE IntLog2(_)
IntLog2(n) == IF n <= 1 THEN 0 ELSE 1 + IntLog2(n \div 2)

\* the exponent of a power of two
Log2(x) == IF x[2] = 1 THEN IntLog2(x[1]) ELSE -IntLog2(x[2])

\* math.log, in units of ln 2
log(x) == RInt(Log2(x))

\* math.exp of a value given in units of ln 2
exp(y) == Pow2(y[1])

One == RInt(1)

Zero == RInt(0)

Two == RInt(2)

----------------------------------------------------------------------------
(* Python sequences and exceptions *)

Last(s) == s[Len(s)]

\* x[:-1]
AllButLast(x) == SubSeq(x, 1, Len(x) - 1)

\* a[mask] for a boolean mask: the entries of a where mask is True
RECURSIVE BoolIndex(_, _)
BoolIndex(a, mask) ==
    IF Len(a) = 0 THEN <<>>
    ELSE (IF Head(mask) THEN <<Head(a)>> ELSE <<>>) \o BoolIndex(Tail(a), Tail(mask))

\* the result of an expression that may raise: the exception's name or "none",
\* and the value
Ok(x) == [err |-> "none", val |-> x]

Raise(e) == [err |-> e, val |-> None]

----------------------------------------------------------------------------
(* StateRelation and its three subclasses *)

Kinds == {"Dieterich", "Ruina", "Prz"}

\* StateRelation.__init__ followed by the caller's assignment of b and Dc
StateRelation(kind, b, Dc) == [kind |-> kind, b |-> b, Dc |-> Dc, state |-> None]

\* self.b * log(system.vref * self.state / self.Dc)
velocity_component(self, sys) ==
    IF AnyNone({self.b, sys.vref, self.state, self.Dc}) THEN Raise("TypeError")
    ELSE Ok(RMul(self.b, log(RDiv(RMul(sys.vref, self.state), self.Dc))))

\* the value _set_steady_state assigns to self.state
steady_state(self, sys) ==
    IF AnyNone({self.Dc, sys.vref}) THEN Raise("TypeError")
    ELSE IF self.kind = "Prz" THEN Ok(RDiv(RMul(Two, self.Dc), sys.vref))
    ELSE Ok(RDiv(self.Dc, sys.vref))

Square(x) == RMul(x, x)

\* x * log(x)
XLogX(x) == RMul(x, log(x))

\* the expressions the three evolve_state methods return
Rate(kind, v, state, Dc) ==
    CASE kind = "Dieterich" -> RSub(One, RDiv(RMul(v, state), Dc))
      [] kind = "Ruina" -> RMul(RInt(-1), XLogX(RDiv(RMul(v, state), Dc)))
      [] kind = "Prz" -> RSub(One, Square(RDiv(RMul(v, state), RMul(Two, Dc))))

dtheta_dt(self, sys) ==
    IF AnyNone({sys.v, self.Dc}) THEN Raise("TypeError")
    ELSE Ok(Rate(self.kind, sys.v, self.state, self.Dc))

WithState(r, state) == [err |-> r.err, val |-> r.val, state |-> state]

\* the mutant of evolve_state that does what its first two lines mean to do:
\* a state that is None is replaced by the steady-state value
evolve_state_substituting(self, sys) ==
    IF IsNone(self.state)
    THEN WithState(dtheta_dt([self EXCEPT !.state = steady_state(self, sys).val], sys),
                   steady_state(self, sys).val)
    ELSE WithState(dtheta_dt(self, sys), self.state)

\* evolve_state: the rate returned and self.state afterwards.  With
\* self.state None the right-hand side of the assignment calls _steady_state,
\* a name the module never defines: NameError is raised and nothing is
\* assigned.
evolve_state(self, sys) ==
    IF IsNone(self.state) THEN WithState(Raise("NameError"), self.state)
    ELSE WithState(dtheta_dt(self, sys), self.state)

----------------------------------------------------------------------------
(* ExternalSystem *)

AddComponent(acc, c) ==
    IF acc.err # "none" THEN acc
    ELSE IF c.err # "none" THEN c
    ELSE Ok(RAdd(acc.val, c.val))

\* the mutant of v_contribution that assigns where the loop adds
v_contribution_assigned(sys, n) ==
    IF n = 0 THEN Ok(Zero)
    ELSE velocity_component(sys.state_relations[n], sys)

\* the loop of velocity_evolution: v_contribution after the first n relations
RECURSIVE v_contribution(_, _)
v_contribution(sys, n) ==
    IF n = 0 THEN Ok(Zero)
    ELSE AddComponent(v_contribution(sys, n - 1),
                      velocity_component(sys.state_relations[n], sys))

ExponentOf(sys, vc) ==
    IF vc.err # "none" THEN vc
    ELSE IF AnyNone({sys.mu, sys.mu0, sys.a, sys.vref}) THEN Raise("TypeError")
    ELSE Ok(RDiv(RSub(RSub(sys.mu, sys.mu0), vc.val), sys.a))

\* the exponent (self.mu - self.mu0 - v_contribution) / self.a
exponent(sys) == ExponentOf(sys, v_contribution(sys, Len(sys.state_relations)))

VelocityOf(sys, e) ==
    IF e.err # "none" THEN e ELSE Ok(RMul(sys.vref, exp(e.val)))

\* velocity_evolution: the new value of self.v
velocity_evolution(sys) == VelocityOf(sys, exponent(sys))

\* self.k * (loadpoint_vel - self.v)
friction_evolution(sys, loadpoint_vel) ==
    IF AnyNone({sys.k, sys.v}) THEN Raise("TypeError")
    ELSE Ok(RMul(sys.k, RSub(RInt(loadpoint_vel), sys.v)))

----------------------------------------------------------------------------
(* RateState._integrationStep *)

\* What one call of _integrationStep has done so far: the system as mutated,
\* the exception raised (or "none"), the calls made in order, the local
\* loadpoint_vel (<<>> while unbound) and step_results.
Frame(sys) ==
    [system |-> sys, err |-> "none", calls |-> <<>>,
     loadpoint_vel |-> <<>>, step_results |-> <<>>]

\* system.mu = w[0]; state_variable.state = w[i+1] for each relation in order
AssignFromW(f, w) ==
    [f EXCEPT
       !.system.mu = w[1],
       !.system.state_relations =
           [i \in 1..Len(@) |-> [@[i] EXCEPT !.state = w[i + 1]]],
       !.calls = @ \o <<<<"mu", 0>>>> \o
                 [i \in 1..Len(f.system.state_relations) |-> <<"state", i>>]]

SetV(f, r) ==
    IF r.err # "none"
    THEN [f EXCEPT !.calls = @ \o <<<<"velocity_evolution", 0>>>>, !.err = r.err]
    ELSE [f EXCEPT !.calls = @ \o <<<<"velocity_evolution", 0>>>>, !.system.v = r.val]

\* system.velocity_evolution()
CallVelocityEvolution(f) ==
    IF f.err # "none" THEN f ELSE SetV(f, velocity_evolution(f.system))

\* system.model_time <= t
TimeMask(sys, t) == [i \in 1..Len(sys.model_time) |-> sys.model_time[i] <= t]

\* selected[-1]
LastOf(selected) ==
    IF Len(selected) = 0 THEN Raise("IndexError")
    ELSE [err |-> "none", val |-> Last(selected)]

\* the mutant of LoadpointLookup that looks ahead: the first sample at or
\* after t
LoadpointLookupAhead(sys, t) ==
    LastOf(BoolIndex([i \in 1..Len(sys.model_time) |->
                         sys.loadpoint_velocity[Len(sys.model_time) + 1 - i]],
                     [i \in 1..Len(sys.model_time) |->
                         sys.model_time[Len(sys.model_time) + 1 - i] >= t]))

\* the mutant of LoadpointLookup that falls back to the first sample
LoadpointLookupDefaulting(sys, t) ==
    IF \A i \in 1..Len(sys.model_time) : ~(sys.model_time[i] <= t)
    THEN [err |-> "none", val |-> sys.loadpoint_velocity[1]]
    ELSE LastOf(BoolIndex(sys.loadpoint_velocity, TimeMask(sys, t)))

\* system.loadpoint_velocity[system.model_time <= t][-1]: a mask of another
\* length than the array, or an empty selection, raises IndexError
LoadpointLookup(sys, t) ==
    IF Len(sys.model_time) # Len(sys.loadpoint_velocity) THEN Raise("IndexError")
    ELSE LastOf(BoolIndex(sys.loadpoint_velocity, TimeMask(sys, t)))

SetLoadpointVel(f, r) ==
    IF r.err # "none" THEN [f EXCEPT !.err = r.err]
    ELSE [f EXCEPT !.loadpoint_vel = <<r.val>>]

BindLoadpointVel(f, t) ==
    IF f.err # "none" THEN f ELSE SetLoadpointVel(f, LoadpointLookup(f.system, t))

SetDmuDt(f, r) ==
    IF r.err # "none"
    THEN [f EXCEPT !.calls = @ \o <<<<"friction_evolution", 0>>>>, !.err = r.err]
    ELSE [f EXCEPT !.calls = @ \o <<<<"friction_evolution", 0>>>>,
                   !.step_results = <<r.val>>]

\* dmu_dt = system.friction_evolution(loadpoint_vel); step_results = [dmu_dt]
CallFrictionEvolution(f) ==
    IF f.err # "none" THEN f
    ELSE SetDmuDt(f, friction_evolution(f.system, f.loadpoint_vel[1]))

AppendRate(g, n, r) ==
    IF r.err # "none"
    THEN [g EXCEPT !.calls = @ \o <<<<"evolve_state", n>>>>,
                   !.system.state_relations[n].state = r.state, !.err = r.err]
    ELSE [g EXCEPT !.calls = @ \o <<<<"evolve_state", n>>>>,
                   !.system.state_relations[n].state = r.state,
                   !.step_results = @ \o <<r.val>>]

EvolveNext(g, n) ==
    IF g.err # "none" THEN g
    ELSE AppendRate(g, n, evolve_state(g.system.state_relations[n], g.system))

\* the loop appending evolve_state(system) of the first n relations
RECURSIVE CallEvolveStates(_, _)
CallEvolveStates(f, n) ==
    IF n = 0 THEN f ELSE EvolveNext(CallEvolveStates(f, n - 1), n)

\* the mutant of _integrationStep that updates the velocity after the
\* friction rate has been computed
integrationStepVelocityLate(w, t, sys) ==
    CallEvolveStates(
        CallVelocityEvolution(
            CallFrictionEvolution(BindLoadpointVel(AssignFromW(Frame(sys), w), t))),
        Len(sys.state_relations))

\* the mutant of _integrationStep that updates the velocity before mu and the
\* states have been assigned from w, on the values the previous call left
integrationStepVelocityEarly(w, t, sys) ==
    CallEvolveStates(
        CallFrictionEvolution(
            BindLoadpointVel(AssignFromW(CallVelocityEvolution(Frame(sys)), w), t)),
        Len(sys.state_relations))

integrationStep(w, t, sys) ==
    CallEvolveStates(
        CallFrictionEvolution(
            BindLoadpointVel(CallVelocityEvolution(AssignFromW(Frame(sys), w)), t)),
        Len(sys.state_relations))

\* what the caller of one step sees: the exception or the returned list, and
\* the calls, the lookup and the velocity that produced it
Outcome(f) ==
    [err |-> f.err, calls |-> f.calls, loadpoint_vel |-> f.loadpoint_vel,
     v |-> f.system.v, step_results |-> f.step_results]

NoOutcome ==
    [err |-> "none", calls |-> <<>>, loadpoint_vel |-> <<>>, v |-> None,
     step_results |-> <<>>]

----------------------------------------------------------------------------
(* RateState.solve *)

\* readyCheck returns True whatever has been set
readyCheck == TRUE

AppendSteady(g, n, r) ==
    IF r.err # "none" THEN [g EXCEPT !.err = r.err]
    ELSE [g EXCEPT !.system.state_relations[n].state = r.val, !.w0 = @ \o <<r.val>>]

SetSteadyNext(g, n) ==
    IF g.err # "none" THEN g
    ELSE AppendSteady(g, n, steady_state(g.system.state_relations[n], g.system))

\* the loop building w0: _set_steady_state on the first n relations, each
\* state appended to w0
RECURSIVE InitialConditions(_, _)
InitialConditions(sys, n) ==
    IF n = 0 THEN [system |-> sys, err |-> "none", w0 |-> <<sys.mu0>>]
    ELSE SetSteadyNext(InitialConditions(sys, n - 1), n)

AfterCall(g, f) ==
    [system |-> f.system, err |-> f.err, outs |-> g.outs \o <<Outcome(f)>>]

NextCall(g, rows, n) ==
    IF g.err # "none" THEN g
    ELSE AfterCall(g, integrationStep(rows[n], g.system.model_time[n], g.system))

\* the calls of func during integrate.odeint, at the first n rows
RECURSIVE OdeintCalls(_, _, _)
OdeintCalls(sys, rows, n) ==
    IF n = 0 THEN [system |-> sys, err |-> "none", outs |-> <<>>]
    ELSE NextCall(OdeintCalls(sys, rows, n - 1), rows, n)

\* integrate.odeint on func = _integrationStep: the solver is outside this
\* module.  It rejects an initial vector that is not numeric, evaluates func
\* at the initial row and at each later row of the solution it returns (an
\* exception of func ends it), and returns the rows at the grid times, the
\* first being w0.  rows[j] for j > 1 is the solver's answer.
odeint(sys, rows) ==
    IF AnyNone({ rows[1][i] : i \in 1..Len(rows[1]) })
    THEN [system |-> sys, err |-> "TypeError", outs |-> <<>>]
    ELSE OdeintCalls(sys, rows, Len(rows))

\* wsol[:, c]
Column(wsol, c) == [j \in 1..Len(wsol) |-> wsol[j][c]]

\* wsol[:, 1:]
StateColumns(wsol) == [j \in 1..Len(wsol) |-> Tail(wsol[j])]

\* the loop accumulating velocity_contribution over the first n relations,
\* at one row of results.states
RECURSIVE velocity_contribution(_, _, _)
velocity_contribution(sys, staterow, n) ==
    IF n = 0 THEN Zero
    ELSE RAdd(velocity_contribution(sys, staterow, n - 1),
              RMul(sys.state_relations[n].b,
                   log(RDiv(RMul(sys.vref, staterow[n]), sys.state_relations[n].Dc))))

\* system.vref * np.exp((friction - system.mu0 - velocity_contribution) / system.a)
slider_velocity(sys, friction, states) ==
    [j \in 1..Len(friction) |->
        RMul(sys.vref,
             exp(RDiv(RSub(RSub(friction[j], sys.mu0),
                           velocity_contribution(sys, states[j], Len(sys.state_relations))),
                      sys.a)))]

\* np.ediff1d
ediff1d(t) == [j \in 1..(Len(t) - 1) |-> t[j + 1] - t[j]]

AppendSum(head, y) == head \o << (IF Len(head) = 0 THEN 0 ELSE Last(head)) + y >>

\* np.cumsum
RECURSIVE cumsum(_)
cumsum(x) == IF Len(x) = 0 THEN <<>> ELSE AppendSum(cumsum(AllButLast(x)), Last(x))

\* x * y, element by element
Products(x, y) == [j \in 1..Len(y) |-> x[j] * y[j]]

\* the mutant of displacement that multiplies each interval by the velocity
\* at its end
displacement_post_step(sys) ==
    <<0>> \o cumsum(Products(Tail(sys.loadpoint_velocity), ediff1d(sys.model_time)))

\* np.insert(np.cumsum(system.loadpoint_velocity[:-1] * dt), 0, 0)
displacement(sys) ==
    <<0>> \o cumsum(Products(AllButLast(sys.loadpoint_velocity), ediff1d(sys.model_time)))

\* the namedtuple class __init__ binds to self.results: one object, whose
\* attributes solve assigns
NoResults ==
    [time |-> <<>>, displacement |-> <<>>, slider_velocity |-> <<>>,
     friction |-> <<>>, states |-> <<>>]

\* the assignments to self.results after odeint has returned wsol
PostProcess(sys, wsol) ==
    [time |-> sys.model_time,
     displacement |-> displacement(sys),
     slider_velocity |-> slider_velocity(sys, Column(wsol, 1), StateColumns(wsol)),
     friction |-> Column(wsol, 1),
     states |-> StateColumns(wsol)]

\* What solve reports: the exception raised (or "none"), whether the loop
\* building w0 completed, whether odeint was called, the system and
\* self.results as left, w0, and what each call of func did.
Returned(ic, res, wsol, o) ==
    [err |-> o.err, w0_built |-> TRUE, integrator_called |-> TRUE,
     system |-> o.system,
     results |-> IF o.err # "none" THEN res ELSE PostProcess(o.system, wsol),
     w0 |-> ic.w0, outs |-> o.outs]

Integrate(ic, res, answer) ==
    IF ic.err # "none"
    THEN [err |-> ic.err, w0_built |-> FALSE, integrator_called |-> FALSE,
          system |-> ic.system, results |-> res, w0 |-> ic.w0, outs |-> <<>>]
    ELSE Returned(ic, res, <<ic.w0>> \o answer, odeint(ic.system, <<ic.w0>> \o answer))

\* solve, given the rows the solver answers with after the first
solve(sys, res, answer) ==
    IF readyCheck # TRUE
    THEN [err |-> "RuntimeError", w0_built |-> FALSE, integrator_called |-> FALSE,
          system |-> sys, results |-> res, w0 |-> <<>>, outs |-> <<>>]
    ELSE Integrate(InitialConditions(sys, Len(sys.state_relations)), res, answer)

----------------------------------------------------------------------------
(* The systems and the requests the model draws from *)

MaxLaws == 2

MaxN == 3

\* the relations a caller configures: each law carries its own b and Dc
LawChoices ==
    { StateRelation("Dieterich", One, One),
      StateRelation("Ruina", One, Two),
      StateRelation("Prz", Two, Two) }

IsInjective(s) == \A i, j \in DOMAIN s : s[i] = s[j] => i = j

\* lists of at most MaxLaws distinct relations, in every order
LawLists ==
    { l \in UNION { [1..m -> LawChoices] : m \in 1..MaxLaws } : IsInjective(l) }

\* mu0, a, k and vref as the caller sets them
ParamChoices ==
    { [mu0 |-> Zero, a |-> One, k |-> One, vref |-> One],
      [mu0 |-> One, a |-> Two, k |-> Two, vref |-> Two] }

IsStrictlyIncreasing(s) == \A i \in 1..(Len(s) - 1) : s[i] < s[i + 1]

\* strictly increasing time grids of at most MaxN samples
TimeGrids ==
    { g \in UNION { [1..n -> 0..MaxN] : n \in 1..MaxN } : IsStrictlyIncreasing(g) }

\* velocity schedules of n samples: all samples distinct, or one velocity step
Schedules(n) ==
    { [i \in 1..n |-> 2 * i - 1],
      [i \in 1..n |-> IF i < n THEN 4 ELSE 1] }

\* every grid with each of its schedules
GridsWithSchedules ==
    UNION { { <<g, lv>> : lv \in Schedules(Len(g)) } : g \in TimeGrids }

\* ExternalSystem.__init__ followed by the caller's assignments; mu is not an
\* attribute until the first step sets it
ExternalSystem(p, laws, grid, lv) ==
    [mu0 |-> p.mu0, a |-> p.a, k |-> p.k, v |-> None, vref |-> p.vref,
     mu |-> None, state_relations |-> laws,
     model_time |-> grid, loadpoint_velocity |-> lv]

\* the grid 0, 2, 4, ... of MaxN samples with all velocities distinct
EvenGrid == [i \in 1..MaxN |-> 2 * (i - 1)]

DistinctSchedule == [i \in 1..MaxN |-> 2 * i - 1]

\* every parameter set and every list of relations, on one grid
StepSystems ==
    { ExternalSystem(p, laws, EvenGrid, DistinctSchedule) :
        p \in ParamChoices, laws \in LawLists }

KindRank(kind) == CASE kind = "Dieterich" -> 1 [] kind = "Ruina" -> 2 [] kind = "Prz" -> 3

\* every parameter set and every set of relations (listed in one order)
PinnedSystems ==
    { sys \in StepSystems :
        \A i \in 1..(Len(sys.state_relations) - 1) :
            KindRank(sys.state_relations[i].kind) < KindRank(sys.state_relations[i + 1].kind) }

\* every grid and schedule, for one relation
LookupSystems ==
    { ExternalSystem(p, <<law>>, gs[1], gs[2]) :
        p \in { q \in ParamChoices : q.a = One },
        law \in { l \in LawChoices : l.kind = "Dieterich" },
        gs \in GridsWithSchedules }

\* a single sample, and the grids of MaxN samples that start at 0
SolveGrids ==
    { <<0>> } \cup { g \in TimeGrids : Len(g) = MaxN /\ g[1] = 0 }

\* the systems with everything set
ReadySystems ==
    { ExternalSystem(p, laws, gs[1], gs[2]) :
        p \in ParamChoices, laws \in LawLists,
        gs \in { x \in GridsWithSchedules : x[1] \in SolveGrids } }

UniformGrid == [i \in 1..MaxN |-> i - 1]

\* a system with one thing left unset, or with arrays of different lengths
Defects(sys) ==
    { [sys EXCEPT !.mu0 = None], [sys EXCEPT !.a = None], [sys EXCEPT !.k = None],
      [sys EXCEPT !.vref = None], [sys EXCEPT !.state_relations = <<>>],
      [sys EXCEPT !.loadpoint_velocity = AllButLast(@)] }

UnreadySystems ==
    UNION { Defects(sys) : sys \in { r \in ReadySystems : r.model_time = UniformGrid } }

\* the vectors w and times t the integrator may request
MuValues == { Zero, One }

StateValues == { One, Two }

QueryTimes == 0..(MaxN + 1)

\* requests between two samples and at the last sample of EvenGrid
StepTimes == { 1, 2 * (MaxN - 1) }

IsExact(e) == e.err = "none" /\ IsInteger(e.val)

\* exp is exact on w when the exponent of velocity_evolution is an integer
InDomain(sys, w) == IsExact(exponent(AssignFromW(Frame(sys), w).system))

Vectors(sys) ==
    { w \in { <<mu>> \o st : mu \in MuValues,
                             st \in [1..Len(sys.state_relations) -> StateValues] } :
        InDomain(sys, w) }

\* the rows a solver may answer with: the initial row again, friction raised
\* by a, or the first state doubled
RowChoices(sys, w0) ==
    { w \in { w0, [w0 EXCEPT ![1] = RAdd(@, sys.a)] } \cup
            (IF Len(w0) > 1 THEN { [w0 EXCEPT ![2] = RMul(Two, @)] } ELSE {}) :
        InDomain(sys, w) }

AnswersFrom(sys, ic) ==
    IF ic.err # "none" \/ AnyNone({sys.mu0, sys.a, sys.vref}) THEN { <<>> }
    ELSE { [j \in 1..(Len(sys.model_time) - 1) |-> r] : r \in RowChoices(sys, ic.w0) }

\* the answers of the solver: N - 1 rows after w0
Answers(sys) == AnswersFrom(sys, InitialConditions(sys, Len(sys.state_relations)))

Perms(m) == { p \in [1..m -> 1..m] : IsInjective(p) }

\* the caller lists the same relations in the order p
Reordered(sys, p) ==
    [sys EXCEPT !.state_relations = [i \in 1..Len(p) |-> sys.state_relations[p[i]]]]

\* a row with its state entries in the order p
PermuteRow(row, p) == <<row[1]>> \o [i \in 1..Len(p) |-> row[p[i] + 1]]

PermuteRows(rows, p) == [j \in 1..Len(rows) |-> PermuteRow(rows[j], p)]

----------------------------------------------------------------------------
(* What the last operation did, and what a caller holds on to *)

\* op: the operation; w, t: the request of a step; i: the relation of a direct
\* call and was: its state before the call; dirty: the scratch values mu and
\* state the call found were not those of its own request; out: what the step
\* did; ret: what a direct call returned
Idle ==
    [op |-> "none", w |-> <<>>, t |-> 0, i |-> 0, was |-> None, dirty |-> FALSE,
     out |-> NoOutcome, ret |-> Raise("none")]

\* the scratch values of mu and of every state, as a vector
Scratch(sys) ==
    <<sys.mu>> \o [i \in 1..Len(sys.state_relations) |-> sys.state_relations[i].state]

StepRecord(w, t, sys, f) ==
    [Idle EXCEPT !.op = "step", !.w = w, !.t = t, !.dirty = (Scratch(sys) # w),
                 !.out = Outcome(f)]

\* the object solve returns: self.results, bound once in __init__
ResultsObject == "RateState.results"

\* nothing has been returned to a caller yet
NoHandle == [object |-> "none", snapshot |-> NoResults]

\* whether everything solve needs has been set
IsReady(sys) ==
    /\ ~AnyNone({sys.mu0, sys.a, sys.k, sys.vref})
    /\ Len(sys.state_relations) >= 1
    /\ Len(sys.model_time) = Len(sys.loadpoint_velocity)

SolveIdle ==
    [op |-> "none", err |-> "none", ready |-> FALSE, w0_built |-> FALSE,
     integrator_called |-> FALSE, w0 |-> <<>>, outs |-> <<>>,
     perm |-> <<>>, perr |-> "none", pouts |-> <<>>, pfriction |-> <<>>,
     pslider |-> <<>>, again |-> FALSE, handle |-> "none"]

\* what one call of solve did (r), beside a solve of the same relations
\* listed in the order p and answered with the same rows in that order (pr)
SolveRecord(sys, p, r, pr, again) ==
    [op |-> "solve", err |-> r.err, ready |-> IsReady(sys),
     w0_built |-> r.w0_built, integrator_called |-> r.integrator_called,
     w0 |-> r.w0, outs |-> r.outs,
     perm |-> p, perr |-> pr.err, pouts |-> pr.outs,
     pfriction |-> pr.results.friction, pslider |-> pr.results.slider_velocity,
     again |-> again,
     handle |-> IF r.err = "none" THEN ResultsObject ELSE "none"]

----------------------------------------------------------------------------
(* Calls on a configured system *)

InitStep ==
    /\ system \in StepSystems
    /\ last = Idle
    /\ pinned = Idle
    /\ results = NoResults
    /\ returned = NoHandle

Stepped(w, t, f) ==
    /\ system' = f.system
    /\ last' = StepRecord(w, t, system, f)

\* the integrator requests the derivative at (w, t)
Step(w, t) ==
    /\ Stepped(w, t, integrationStep(w, t, system))
    /\ UNCHANGED <<pinned, results, returned>>

\* the same, and the request and its answer are remembered
PinStep(w, t) ==
    /\ Stepped(w, t, integrationStep(w, t, system))
    /\ pinned' = last'
    /\ UNCHANGED <<results, returned>>

Evolved(i, r) ==
    /\ system' = [system EXCEPT !.state_relations[i].state = r.state]
    /\ last' = [Idle EXCEPT !.op = "evolve_state", !.i = i,
                            !.was = system.state_relations[i].state,
                            !.ret = [err |-> r.err, val |-> r.val]]

\* a caller invokes evolve_state of relation i directly
EvolveState(i) ==
    /\ Evolved(i, evolve_state(system.state_relations[i], system))
    /\ UNCHANGED <<pinned, results, returned>>

\* a caller invokes velocity_component of relation i directly
VelocityComponent(i) ==
    /\ last' = [Idle EXCEPT !.op = "velocity_component", !.i = i,
                            !.was = system.state_relations[i].state,
                            !.ret = velocity_component(system.state_relations[i], system)]
    /\ UNCHANGED <<system, pinned, results, returned>>

NextStep ==
    \/ \E w \in Vectors(system), t \in StepTimes : Step(w, t)
    \/ \E i \in 1..Len(system.state_relations) : EvolveState(i)
    \/ \E i \in 1..Len(system.state_relations) : VelocityComponent(i)

Spec == InitStep /\ [][NextStep]_vars

----------------------------------------------------------------------------
(* Repeated requests: one request is remembered and asked again later *)

InitPinned ==
    /\ system \in PinnedSystems
    /\ last = Idle
    /\ pinned = Idle
    /\ results = NoResults
    /\ returned = NoHandle

NextPinned ==
    \/ \E w \in Vectors(system), t \in StepTimes : Step(w, t)
    \/ pinned.op = "none" /\ \E w \in Vectors(system), t \in StepTimes : PinStep(w, t)

SpecPinned == InitPinned /\ [][NextPinned]_vars

----------------------------------------------------------------------------
(* Requests at every time, on every grid *)

InitLookup ==
    /\ system \in LookupSystems
    /\ last = Idle
    /\ pinned = Idle
    /\ results = NoResults
    /\ returned = NoHandle

NextLookup == \E w \in Vectors(system), t \in QueryTimes : Step(w, t)

SpecLookup == InitLookup /\ [][NextLookup]_vars

----------------------------------------------------------------------------
(* Solving *)

InitSolve ==
    /\ system \in ReadySystems \cup UnreadySystems
    /\ last = SolveIdle
    /\ pinned = Idle
    /\ results = NoResults
    /\ returned = NoHandle

Solved(p, r, pr) ==
    /\ system' = r.system
    /\ results' = r.results
    /\ last' = SolveRecord(system, p, r, pr, returned.object # "none")

\* solve(system), the solver answering with `answer`
Solve(answer, p) ==
    /\ Solved(p, solve(system, results, answer),
              solve(Reordered(system, p), NoResults, PermuteRows(answer, p)))
    /\ UNCHANGED <<pinned, returned>>

NextSolve ==
    \E answer \in Answers(system), p \in Perms(Len(system.state_relations)) :
        Solve(answer, p)

SpecSolve == InitSolve /\ [][NextSolve]_vars

----------------------------------------------------------------------------
(* A caller keeps the first results it was given and solves again *)

InitResults ==
    /\ system \in { sys \in ReadySystems :
                      Len(sys.state_relations) = 1 /\ sys.a = One /\ Len(sys.model_time) > 1 }
    /\ last = SolveIdle
    /\ pinned = Idle
    /\ results = NoResults
    /\ returned = NoHandle

\* solve, and the caller keeps what it returned
KeepSolve(answer, p) ==
    /\ Solved(p, solve(system, results, answer),
              solve(Reordered(system, p), NoResults, PermuteRows(answer, p)))
    /\ last'.err = "none"
    /\ returned' = [object |-> last'.handle, snapshot |-> results']
    /\ UNCHANGED pinned

\* the caller assigns another velocity schedule of the same length
SetLoadpointVelocity(lv) ==
    /\ lv # system.loadpoint_velocity
    /\ system' = [system EXCEPT !.loadpoint_velocity = lv]
    /\ UNCHANGED <<last, pinned, results, returned>>

NextResults ==
    \/ \E answer \in Answers(system), p \in Perms(Len(system.state_relations)) :
          Solve(answer, p)
    \/ /\ returned.object = "none"
       /\ \E answer \in Answers(system), p \in Perms(Len(system.state_relations)) :
             KeepSolve(answer, p)
    \/ \E lv \in Schedules(Len(system.model_time)) : SetLoadpointVelocity(lv)

SpecResults == InitResults /\ [][NextResults]_vars

----------------------------------------------------------------------------
(* Claims about the integration step *)

\* the largest index whose grid time does not exceed t (0 when there is none)
LatestIndex(grid, t) ==
    IF \E i \in 1..Len(grid) : grid[i] <= t
    THEN CHOOSE i \in 1..Len(grid) :
            /\ grid[i] <= t
            /\ \A j \in 1..Len(grid) : grid[j] <= t => j <= i
    ELSE 0

\* C1: at a request time t at or after the first grid time the step uses
\* loadpoint_velocity[i] for the largest i with model_time[i] <= t, and dmu_dt
\* is k * (that value - v): no later sample, no interpolated value
C1_ZeroOrderHold ==
    (last.op = "step" /\ system.model_time[1] <= last.t) =>
        LET i == LatestIndex(system.model_time, last.t)
            lv == system.loadpoint_velocity[i]
        IN  /\ last.out.err = "none"
            /\ last.out.loadpoint_vel = <<lv>>
            /\ last.out.step_results[1] = RMul(system.k, RSub(RInt(lv), system.v))

\* a request strictly between two samples that carry different velocities
C1_Witness ==
    /\ last.op = "step"
    /\ \E i \in 1..(Len(system.model_time) - 1) :
          /\ system.model_time[i] < last.t
          /\ last.t < system.model_time[i + 1]
          /\ system.loadpoint_velocity[i] # system.loadpoint_velocity[i + 1]
          /\ last.out.loadpoint_vel = <<system.loadpoint_velocity[i]>>

\* C6: a request at a time before the first grid time fails (IndexError from
\* indexing the empty selection): no loadpoint velocity is bound and no
\* derivative is returned
C6_BeforeFirstSampleFails ==
    (last.op = "step" /\ last.t < system.model_time[1]) =>
        /\ last.out.err = "IndexError"
        /\ last.out.loadpoint_vel = <<>>
        /\ last.out.step_results = <<>>

C6_Witness ==
    /\ last.op = "step"
    /\ last.t < system.model_time[1]
    /\ last.out.err # "none"

\* C5: evolve_state or velocity_component called on a relation whose state is
\* None raises, returns no value and leaves the state None
C5_UninitializedStateFails ==
    (last.op \in {"evolve_state", "velocity_component"} /\ IsNone(last.was)) =>
        /\ last.ret.err \in {"NameError", "TypeError"}
        /\ IsNone(last.ret.val)
        /\ IsNone(system.state_relations[last.i].state)

C5_Witness ==
    /\ last.op = "evolve_state"
    /\ IsNone(last.was)
    /\ last.ret.err # "none"
    /\ system.state_relations[last.i].kind = "Prz"

\* the positions of the calls named e in the sequence c
Positions(c, e) == { j \in 1..Len(c) : c[j][1] = e }

\* C9: one step calls velocity_evolution exactly once, after mu and every
\* state have been assigned from w in list order and before
\* friction_evolution and every evolve_state; it returns
\* [dmu_dt, dstate_dt_1, ..., dstate_dt_m], as long as w and in w's order
C9_StepOrder ==
    (last.op = "step") =>
        LET c == last.out.calls
            m == Len(system.state_relations)
            r == last.out.step_results
        IN  /\ last.out.err = "none"
            /\ Cardinality(Positions(c, "velocity_evolution")) = 1
            /\ \A i \in 1..(m + 1) : c[i] = IF i = 1 THEN <<"mu", 0>> ELSE <<"state", i - 1>>
            /\ system.mu = last.w[1]
            /\ \A i \in 1..m : system.state_relations[i].state = last.w[i + 1]
            /\ \A j \in Positions(c, "velocity_evolution") :
                  /\ j = m + 2
                  /\ \A n \in Positions(c, "friction_evolution") \cup
                              Positions(c, "evolve_state") : j < n
            /\ Cardinality(Positions(c, "friction_evolution")) = 1
            /\ Cardinality(Positions(c, "evolve_state")) = m
            /\ Len(r) = Len(last.w)
            /\ r[1] = friction_evolution(system, last.out.loadpoint_vel[1]).val
            /\ \A i \in 1..m :
                  r[i + 1] = dtheta_dt(system.state_relations[i], system).val

C9_Witness ==
    /\ last.op = "step"
    /\ Len(system.state_relations) = 2
    /\ Len(last.out.step_results) = 3
    /\ last.out.step_results[2] # last.out.step_results[3]

\* C10: two requests with the same (w, t) get the same answer, whatever
\* requests were served in between and whatever scratch values they left
C10_Stateless ==
    (pinned.op = "step" /\ last.op = "step" /\ last.w = pinned.w /\ last.t = pinned.t) =>
        /\ last.out.err = pinned.out.err
        /\ last.out.step_results = pinned.out.step_results

\* the remembered request is repeated on scratch values left by another one
C10_Witness ==
    /\ pinned.op = "step"
    /\ last.op = "step"
    /\ last.w = pinned.w
    /\ last.t = pinned.t
    /\ last.dirty
    /\ ~pinned.dirty
    /\ last.out.step_results = pinned.out.step_results
    /\ Len(last.out.step_results) = 3

----------------------------------------------------------------------------
(* Claims about solve *)

\* C2: after a solve on N grid times displacement has N entries, starts at 0,
\* and each later entry adds loadpoint_velocity[j-1] times the grid's own
\* interval time[j] - time[j-1]; the last velocity sample is not used
C2_DisplacementRecurrence ==
    (last.op = "solve" /\ last.err = "none") =>
        /\ Len(results.displacement) = Len(system.model_time)
        /\ results.displacement[1] = 0
        /\ \A j \in 2..Len(system.model_time) :
              results.displacement[j] =
                  results.displacement[j - 1] +
                  system.loadpoint_velocity[j - 1] *
                      (system.model_time[j] - system.model_time[j - 1])

\* a solve on three times with unequal intervals and three different velocities
C2_Witness ==
    /\ last.op = "solve"
    /\ last.err = "none"
    /\ Len(results.displacement) = 3
    /\ system.model_time[2] - system.model_time[1] # system.model_time[3] - system.model_time[2]
    /\ system.loadpoint_velocity[2] # system.loadpoint_velocity[1]
    /\ system.loadpoint_velocity[3] # system.loadpoint_velocity[2]
    /\ results.displacement[3] > results.displacement[2]
    /\ results.displacement[2] > 0

\* C3: with a single relation of any kind and loadpoint_velocity[0] = vref,
\* the first evaluation of the step, at w0 and model_time[0], finds v = vref
\* and returns dmu_dt = 0 and dstate_dt = 0
C3_SteadyStateFixedPoint ==
    (/\ last.op = "solve"
     /\ last.ready
     /\ Len(system.state_relations) = 1
     /\ RInt(system.loadpoint_velocity[1]) = system.vref
     /\ Len(last.outs) >= 1) =>
        /\ last.outs[1].err = "none"
        /\ last.outs[1].v = system.vref
        /\ last.outs[1].step_results = <<Zero, Zero>>

\* C4: solve on a system with mu0, a, k or vref unset, no relation, or arrays
\* of different lengths raises the error of the readiness check ('Not all
\* model parameters set') before w0 is built and before odeint is called
C4_UnreadyFailsEarly ==
    (last.op = "solve" /\ ~last.ready) =>
        /\ last.err = "RuntimeError"
        /\ ~last.w0_built
        /\ ~last.integrator_called

\* C7: what solve returned keeps the field values it had when it was
\* returned, and a later solve returns another object
C7_ResultsImmutable ==
    (returned.object # "none") =>
        /\ results = returned.snapshot
        /\ (last.again /\ last.err = "none") => last.handle # returned.object

\* C8: solving with the relations listed in the order perm, the solver
\* answering with the same rows in that order, every evaluation of the step
\* returns the same dmu_dt and the same dstate_dt of each relation, and the
\* results carry the same friction and slider_velocity
C8_OrderNotObservable ==
    (last.op = "solve") =>
        /\ last.perr = last.err
        /\ Len(last.pouts) = Len(last.outs)
        /\ \A j \in 1..Len(last.outs) :
              /\ last.pouts[j].err = last.outs[j].err
              /\ last.pouts[j].v = last.outs[j].v
              /\ last.outs[j].err = "none" =>
                    /\ last.pouts[j].step_results[1] = last.outs[j].step_results[1]
                    /\ \A i \in 1..Len(last.perm) :
                          last.pouts[j].step_results[i + 1] =
                              last.outs[j].step_results[last.perm[i] + 1]
        /\ last.err = "none" =>
              /\ last.pfriction = results.friction
              /\ last.pslider = results.slider_velocity

\* a solve of two relations beside the solve with the two exchanged, whose
\* rates differ and whose slider velocity changes along the solution
C8_Witness ==
    /\ last.op = "solve"
    /\ last.err = "none"
    /\ last.perm = <<2, 1>>
    /\ Len(last.outs) = 3
    /\ last.outs[3].step_results[2] # last.outs[3].step_results[3]
    /\ last.pslider = results.slider_velocity
    /\ results.slider_velocity[2] # system.vref

====
